---- MODULE Spec2Model ----
(***************************************************************************)
(* A model of package kv (kv/kv.go): a key/value bucket kept in one        *)
(* ConfigMap.  Every backend round-trip (implementer.Get / Create /        *)
(* Update / Delete) is one atomic step; the goroutines calling into one    *)
(* *KV interleave between those steps and are ordered only by the KV's     *)
(* sync.RWMutex.                                                           *)
(***************************************************************************)
EXTENDS Integers, Sequences, FiniteSets, TLC

VARIABLES
    store,    \* the backend's record for the bucket name (or none)
    ready,    \* ready[i]: New has returned the handle i
    mu,       \* mu[i]: the holders of handle i's sync.RWMutex
    inst,     \* inst[t]: the *KV the goroutine t calls into
    pc,       \* pc[t]: where goroutine t is inside its current call
    op,       \* op[t]: the call goroutine t is in
    m,        \* m[t]: the *v1.ConfigMap that getMap handed to the call
    log,      \* log[t]: the backend calls the call of t has made so far
    last,     \* the call that has just returned: who, what, result, backend calls
    nOps,     \* calls on handles started so far
    faults,   \* backend failures injected so far
    abs,      \* the bucket as a sequential key/value store sees it
    seenAbs,  \* seenAbs[t]: abs when getMap resolved the record for t
    seenRec,  \* seenRec[t]: the backend's record when getMap resolved it for t
    existed   \* existed[t]: there was a record when t issued its call

vars == <<store, ready, mu, inst, pc, op, m, log, last, nOps, faults, abs, seenAbs, seenRec, existed>>

----------------------------------------------------------------------------
(* Bounds *)

MaxOps == 3
MaxFaults == 1

Threads == {"t1", "t2"}
Instances == {"kv1", "kv2"}

\* Go strings and byte slices are sequences of bytes; keys are strings.
KeyA == <<97>>
KeyBA == <<98, 97>>
Keys == {KeyA, KeyBA}
Prefixes == {<< >>, <<97>>, <<98>>, <<97, 98>>}
Values == {<< >>, <<255>>}

\* the goroutine that constructs handle i
Maker(i) == IF i = "kv1" THEN "t1" ELSE "t2"

Bucket == "b1"
AppOf(i) == IF i = "kv1" THEN "app1" ELSE "app2"

----------------------------------------------------------------------------
(* Errors *)

NoErr == "nil"
ErrNotFound == "kv: not found"
ApiNotFound == "api: NotFound"
ApiAlreadyExists == "api: AlreadyExists"
ApiUnavailable == "api: Unavailable"
NilMapPanic == "panic: assignment to entry in nil map"

\* every error taken for "not found"
IsNotFoundAny(err) == err # NoErr

IsNotFound(err) == err = ApiNotFound

----------------------------------------------------------------------------
(* Conversions between []byte and string *)

\* a conversion that keeps only 7-bit bytes and puts '?' for the others
StringOfBytesLossy(b) == [i \in 1..Len(b) |-> IF b[i] > 127 THEN 63 ELSE b[i]]

\* string(value): a string holding the same bytes
StringOfBytes(b) == [i \in 1..Len(b) |-> b[i]]

\* []byte(val): a fresh slice holding the string's bytes
BytesOfString(s) == [i \in 1..Len(s) |-> s[i]]

\* HasPrefix with its arguments the other way round
HasPrefixSwapped(s, prefix) ==
    /\ Len(prefix) >= Len(s)
    /\ SubSeq(prefix, 1, Len(s)) = s

\* strings.HasPrefix(s, prefix)
HasPrefix(s, prefix) ==
    /\ Len(s) >= Len(prefix)
    /\ SubSeq(s, 1, Len(prefix)) = prefix

----------------------------------------------------------------------------
(* Records and objects *)

EmptyData == [k \in {} |-> << >>]
NoLabels == [l \in {} |-> ""]

\* no record of that name in the backend
Absent == [exists |-> FALSE, name |-> "", labels |-> NoLabels, data |-> EmptyData]

\* a *v1.ConfigMap in the program's memory; DataNil: its Data map is nil
NoMap == [Name |-> "", Labels |-> NoLabels, Data |-> EmptyData, DataNil |-> TRUE]

\* labels with the bucket and the app name under each other's tag
labelsSwapped(i) ==
    [l \in {"BUCKET", "APP", "OWNER"} |->
        CASE l = "BUCKET" -> AppOf(i)
          [] l = "APP" -> Bucket
          [] OTHER -> "K8S-KV"]

\* lbs.init(); lbs.set(...) x3; lbs.toMap()
labels(i) ==
    [l \in {"BUCKET", "APP", "OWNER"} |->
        CASE l = "BUCKET" -> Bucket
          [] l = "APP" -> AppOf(i)
          [] OTHER -> "K8S-KV"]

\* what the backend keeps of an object handed to Create or Update: a nil and
\* an empty Data are the same record
Stored(cfgMap) ==
    [exists |-> TRUE, name |-> cfgMap.Name, labels |-> cfgMap.Labels,
     data |-> cfgMap.Data]

\* the objects the backend may hand back for a record: Data as stored, and
\* for a record without entries Data may also come back nil
Decoded(rec) ==
    {[Name |-> rec.name, Labels |-> rec.labels, Data |-> rec.data, DataNil |-> n] :
        n \in IF DOMAIN rec.data = {} THEN BOOLEAN ELSE {FALSE}}

\* a map holding the new entry alone
SetKeyOnly(data, key, val) == [k \in {key} |-> val]

\* m.Data[key] = val
SetKey(data, key, val) ==
    [k \in DOMAIN data \cup {key} |-> IF k = key THEN val ELSE data[k]]

\* a delete that empties the map
DeleteKeyAll(data, key) == [k \in {} |-> << >>]

\* delete(m.Data, key)
DeleteKey(data, key) == [k \in DOMAIN data \ {key} |-> data[k]]

----------------------------------------------------------------------------
(* Calls *)

NoOp == [kind |-> "none", key |-> << >>, val |-> << >>]
NewOp == [kind |-> "New", key |-> << >>, val |-> << >>]
TeardownOp == [kind |-> "Teardown", key |-> << >>, val |-> << >>]

LockedOps ==
    {[kind |-> "Put", key |-> k, val |-> v] : k \in Keys, v \in Values}
    \cup {[kind |-> kd, key |-> k, val |-> << >>] : kd \in {"Get", "Delete"}, k \in Keys}
    \cup {[kind |-> "List", key |-> p, val |-> << >>] : p \in Prefixes}

\* the sequential view of a bucket: present or not, its labels, key -> bytes
AbsAbsent == [exists |-> FALSE, labels |-> NoLabels, data |-> EmptyData]

NoRet == [err |-> NoErr, val |-> << >>, valNil |-> TRUE, list |-> EmptyData, listNil |-> TRUE]
ErrRet(e) == [NoRet EXCEPT !.err = e]

\* no call has just returned
NoEvent == [t |-> "", op |-> NoOp, ret |-> NoRet, log |-> << >>, seen |-> AbsAbsent, m |-> NoMap,
            existed |-> FALSE, rec |-> AbsAbsent]

Free == [writer |-> {}, readers |-> {}]


----------------------------------------------------------------------------
(* Initial states: no handle yet; the backend holds no record of the bucket *)
(* name, or one made earlier (by this library or by hand).                 *)

InitRecords ==
    {Absent,
     [exists |-> TRUE, name |-> Bucket, labels |-> NoLabels, data |-> EmptyData],
     [exists |-> TRUE, name |-> Bucket, labels |-> labels("kv2"),
      data |-> [k \in {KeyA} |-> StringOfBytes(<<255>>)]]}

AbsOf(rec) ==
    [exists |-> rec.exists, labels |-> rec.labels,
     data |-> [k \in DOMAIN rec.data |-> BytesOfString(rec.data[k])]]

InitWith(instOf) ==
    /\ store \in InitRecords
    /\ ready = [i \in Instances |-> FALSE]
    /\ mu = [i \in Instances |-> Free]
    /\ inst = instOf
    /\ pc = [t \in Threads |-> "idle"]
    /\ op = [t \in Threads |-> NoOp]
    /\ m = [t \in Threads |-> NoMap]
    /\ log = [t \in Threads |-> << >>]
    /\ last = NoEvent
    /\ nOps = 0
    /\ faults = 0
    /\ abs = AbsOf(store)
    /\ seenAbs = [t \in Threads |-> AbsAbsent]
    /\ seenRec = [t \in Threads |-> AbsAbsent]
    /\ existed = [t \in Threads |-> FALSE]

Init == InitWith([t \in Threads |-> "kv1"])

----------------------------------------------------------------------------
(* Steps *)

Entry(call, res) == [call |-> call, res |-> res]

\* defer k.mu.Unlock() / defer k.mu.RUnlock()
Unlock(t) ==
    mu' = [mu EXCEPT ![inst[t]] = [writer |-> @.writer \ {t}, readers |-> @.readers \ {t}]]

\* a return whose unlock is not deferred: it runs on the success path only
ReturnUnlockOnSuccess(t, r, lg) ==
    /\ pc' = [pc EXCEPT ![t] = "idle"]
    /\ op' = [op EXCEPT ![t] = NoOp]
    /\ m' = [m EXCEPT ![t] = NoMap]
    /\ log' = [log EXCEPT ![t] = << >>]
    /\ seenAbs' = [seenAbs EXCEPT ![t] = AbsAbsent]
    /\ seenRec' = [seenRec EXCEPT ![t] = AbsAbsent]
    /\ existed' = [existed EXCEPT ![t] = FALSE]
    /\ last' = [t |-> t, op |-> op[t], ret |-> r, log |-> lg, seen |-> seenAbs[t], m |-> m[t],
                existed |-> existed[t], rec |-> seenRec[t]]
    /\ IF r.err \in {NoErr, ErrNotFound} THEN Unlock(t) ELSE mu' = mu

\* the call of t returns r, having made the backend calls lg; the deferred
\* unlock runs
Return(t, r, lg) ==
    /\ pc' = [pc EXCEPT ![t] = "idle"]
    /\ op' = [op EXCEPT ![t] = NoOp]
    /\ m' = [m EXCEPT ![t] = NoMap]
    /\ log' = [log EXCEPT ![t] = << >>]
    /\ seenAbs' = [seenAbs EXCEPT ![t] = AbsAbsent]
    /\ seenRec' = [seenRec EXCEPT ![t] = AbsAbsent]
    /\ existed' = [existed EXCEPT ![t] = FALSE]
    /\ last' = [t |-> t, op |-> op[t], ret |-> r, log |-> lg, seen |-> seenAbs[t], m |-> m[t],
                existed |-> existed[t], rec |-> seenRec[t]]
    /\ Unlock(t)

\* the backend fails the call
Fault == faults < MaxFaults /\ faults' = faults + 1

\* the goroutine that sets the handle up calls New(implementer, app, bucket);
\* the others get the handle from it
CallNew(t) ==
    /\ pc[t] = "idle"
    /\ t = Maker(inst[t])
    /\ ~ready[inst[t]]
    /\ \A u \in Threads : inst[u] = inst[t] => pc[u] = "idle"
    /\ pc' = [pc EXCEPT ![t] = "getMap"]
    /\ op' = [op EXCEPT ![t] = NewOp]
    /\ existed' = [existed EXCEPT ![t] = store.exists]
    /\ last' = NoEvent
    /\ UNCHANGED <<store, ready, mu, inst, m, log, nOps, faults, abs, seenAbs, seenRec>>

\* a goroutine calls Put, Get, Delete or List on its handle
Call(t, o) ==
    /\ pc[t] = "idle"
    /\ ready[inst[t]]
    /\ nOps < MaxOps
    /\ pc' = [pc EXCEPT ![t] = "lock"]
    /\ op' = [op EXCEPT ![t] = o]
    /\ nOps' = nOps + 1
    /\ existed' = [existed EXCEPT ![t] = store.exists]
    /\ last' = NoEvent
    /\ UNCHANGED <<store, ready, mu, inst, m, log, faults, abs, seenAbs, seenRec>>

\* a writer that takes the lock in shared mode
LockShared(t) ==
    /\ pc[t] = "lock"
    /\ op[t].kind \in {"Put", "Delete"}
    /\ mu[inst[t]].writer = {}
    /\ mu' = [mu EXCEPT ![inst[t]].readers = @ \cup {t}]
    /\ pc' = [pc EXCEPT ![t] = "getMap"]
    /\ last' = NoEvent
    /\ UNCHANGED <<store, ready, inst, op, m, log, nOps, faults, abs, seenAbs, seenRec, existed>>

\* a writer that waits for writers only, not for the readers
LockOverReaders(t) ==
    /\ pc[t] = "lock"
    /\ op[t].kind \in {"Put", "Delete"}
    /\ mu[inst[t]].writer = {}
    /\ mu' = [mu EXCEPT ![inst[t]].writer = {t}]
    /\ pc' = [pc EXCEPT ![t] = "getMap"]
    /\ last' = NoEvent
    /\ UNCHANGED <<store, ready, inst, op, m, log, nOps, faults, abs, seenAbs, seenRec, existed>>

\* k.mu.Lock()
Lock(t) ==
    /\ pc[t] = "lock"
    /\ op[t].kind \in {"Put", "Delete"}
    /\ mu[inst[t]] = Free
    /\ mu' = [mu EXCEPT ![inst[t]].writer = {t}]
    /\ pc' = [pc EXCEPT ![t] = "getMap"]
    /\ last' = NoEvent
    /\ UNCHANGED <<store, ready, inst, op, m, log, nOps, faults, abs, seenAbs, seenRec, existed>>

\* a reader that does not wait for the writer to unlock
RLockNoWait(t) ==
    /\ pc[t] = "lock"
    /\ op[t].kind \in {"Get", "List"}
    /\ mu' = [mu EXCEPT ![inst[t]].readers = @ \cup {t}]
    /\ pc' = [pc EXCEPT ![t] = "getMap"]
    /\ last' = NoEvent
    /\ UNCHANGED <<store, ready, inst, op, m, log, nOps, faults, abs, seenAbs, seenRec, existed>>

\* k.mu.RLock()
RLock(t) ==
    /\ pc[t] = "lock"
    /\ op[t].kind \in {"Get", "List"}
    /\ mu[inst[t]].writer = {}
    /\ mu' = [mu EXCEPT ![inst[t]].readers = @ \cup {t}]
    /\ pc' = [pc EXCEPT ![t] = "getMap"]
    /\ last' = NoEvent
    /\ UNCHANGED <<store, ready, inst, op, m, log, nOps, faults, abs, seenAbs, seenRec, existed>>

\* what k.implementer.Get(k.bucket, ...) may answer: the record, NotFound when
\* there is none, or another failure
GetErrs ==
    (IF store.exists THEN {NoErr} ELSE {ApiNotFound})
    \cup (IF faults < MaxFaults THEN {ApiUnavailable} ELSE {})

\* a getMap that, when the record is there, answers with a copy kept up with
\* the writes that succeeded instead of the record the backend returned
getMapCached(t) ==
    /\ pc[t] = "getMap"
    /\ \E err \in GetErrs :
        /\ faults' = IF err = ApiUnavailable THEN faults + 1 ELSE faults
        /\ IF err # NoErr
             THEN IF IsNotFound(err)
                    THEN /\ log' = [log EXCEPT ![t] = Append(@, Entry("Get", err))]
                         /\ pc' = [pc EXCEPT ![t] = "create"]
                         /\ last' = NoEvent
                         /\ UNCHANGED <<mu, op, m, seenAbs, seenRec, existed>>
                    ELSE Return(t, ErrRet(err), Append(log[t], Entry("Get", err)))
             ELSE /\ m' = [m EXCEPT ![t] =
                            [Name |-> Bucket, Labels |-> abs.labels,
                             Data |-> [k \in DOMAIN abs.data |-> StringOfBytes(abs.data[k])],
                             DataNil |-> FALSE]]
                  /\ log' = [log EXCEPT ![t] = Append(@, Entry("Get", err))]
                  /\ pc' = [pc EXCEPT ![t] = "use"]
                  /\ seenAbs' = [seenAbs EXCEPT ![t] = abs]
                  /\ seenRec' = [seenRec EXCEPT ![t] = AbsOf(store)]
                  /\ last' = NoEvent
                  /\ UNCHANGED <<mu, op, existed>>
    /\ UNCHANGED <<store, ready, inst, nOps, abs>>

\* getMap: k.implementer.Get(k.bucket, ...) and what follows it
getMap(t) ==
    /\ pc[t] = "getMap"
    /\ \E err \in GetErrs :
        /\ faults' = IF err = ApiUnavailable THEN faults + 1 ELSE faults
        /\ IF err # NoErr
             THEN IF IsNotFound(err)
                    THEN /\ log' = [log EXCEPT ![t] = Append(@, Entry("Get", err))]
                         /\ pc' = [pc EXCEPT ![t] = "create"]
                         /\ last' = NoEvent
                         /\ UNCHANGED <<mu, op, m, seenAbs, seenRec, existed>>
                    ELSE Return(t, ErrRet(err), Append(log[t], Entry("Get", err)))
             ELSE /\ \E cfgMap \in Decoded(store) :
                        m' = [m EXCEPT ![t] = [cfgMap EXCEPT !.DataNil = FALSE]]
                  /\ log' = [log EXCEPT ![t] = Append(@, Entry("Get", err))]
                  /\ pc' = [pc EXCEPT ![t] = "use"]
                  /\ seenAbs' = [seenAbs EXCEPT ![t] = abs]
                  /\ seenRec' = [seenRec EXCEPT ![t] = AbsOf(store)]
                  /\ last' = NoEvent
                  /\ UNCHANGED <<mu, op, existed>>
    /\ UNCHANGED <<store, ready, inst, nOps, abs>>

\* newConfigMapsObject: build the object, k.implementer.Create(cfgMap)
newConfigMapsObject(t) ==
    LET cfgMap == [Name |-> Bucket, Labels |-> labels(inst[t]),
                   Data |-> EmptyData, DataNil |-> FALSE]
    IN
    /\ pc[t] = "create"
    /\ \/ /\ Fault
          /\ Return(t, ErrRet(ApiUnavailable), Append(log[t], Entry("Create", ApiUnavailable)))
          /\ UNCHANGED <<store, abs>>
       \/ /\ store.exists
          /\ Return(t, ErrRet(ApiAlreadyExists), Append(log[t], Entry("Create", ApiAlreadyExists)))
          /\ UNCHANGED <<store, faults, abs>>
       \/ /\ ~store.exists
          /\ store' = Stored(cfgMap)
          /\ \E cm \in Decoded(Stored(cfgMap)) : m' = [m EXCEPT ![t] = cm]
          /\ log' = [log EXCEPT ![t] = Append(@, Entry("Create", NoErr))]
          /\ pc' = [pc EXCEPT ![t] = "use"]
          /\ abs' = [exists |-> TRUE, labels |-> labels(inst[t]), data |-> EmptyData]
          /\ seenAbs' = [seenAbs EXCEPT ![t] = abs']
          /\ seenRec' = [seenRec EXCEPT ![t] = AbsOf(store')]
          /\ last' = NoEvent
          /\ UNCHANGED <<mu, op, faults, existed>>
    /\ UNCHANGED <<ready, inst, nOps>>

\* New, after getMap returned without error: return kv, nil
New(t) ==
    /\ pc[t] = "use"
    /\ op[t].kind = "New"
    /\ ready' = [ready EXCEPT ![inst[t]] = TRUE]
    /\ Return(t, NoRet, log[t])
    /\ UNCHANGED <<store, inst, nOps, faults, abs>>

\* a saveMap that tries the update again when it fails
saveMapRetry(t, cfgMap, absNext) ==
    \/ /\ Fault
       /\ store.exists
       /\ store' = Stored(cfgMap)
       /\ abs' = absNext
       /\ Return(t, NoRet, log[t] \o <<Entry("Update", ApiUnavailable), Entry("Update", NoErr)>>)
    \/ /\ ~store.exists
       /\ Return(t, ErrRet(ApiNotFound), Append(log[t], Entry("Update", ApiNotFound)))
       /\ UNCHANGED <<store, faults, abs>>
    \/ /\ store.exists
       /\ store' = Stored(cfgMap)
       /\ abs' = absNext
       /\ Return(t, NoRet, Append(log[t], Entry("Update", NoErr)))
       /\ UNCHANGED faults

\* a saveMap whose update patches the stored entries instead of replacing them
saveMapMerge(t, cfgMap, absNext) ==
    \/ /\ Fault
       /\ Return(t, ErrRet(ApiUnavailable), Append(log[t], Entry("Update", ApiUnavailable)))
       /\ UNCHANGED <<store, abs>>
    \/ /\ ~store.exists
       /\ Return(t, ErrRet(ApiNotFound), Append(log[t], Entry("Update", ApiNotFound)))
       /\ UNCHANGED <<store, faults, abs>>
    \/ /\ store.exists
       /\ store' = [Stored(cfgMap) EXCEPT !.data =
                        [k \in DOMAIN store.data \cup DOMAIN cfgMap.Data |->
                            IF k \in DOMAIN cfgMap.Data THEN cfgMap.Data[k] ELSE store.data[k]]]
       /\ abs' = absNext
       /\ Return(t, NoRet, Append(log[t], Entry("Update", NoErr)))
       /\ UNCHANGED faults

\* saveMap: k.implementer.Update(cfgMap), the error returned to the caller;
\* absNext is what the update makes of the sequential view
saveMap(t, cfgMap, absNext) ==
    \/ /\ Fault
       /\ Return(t, ErrRet(ApiUnavailable), Append(log[t], Entry("Update", ApiUnavailable)))
       /\ UNCHANGED <<store, abs>>
    \/ /\ ~store.exists
       /\ Return(t, ErrRet(ApiNotFound), Append(log[t], Entry("Update", ApiNotFound)))
       /\ UNCHANGED <<store, faults, abs>>
    \/ /\ store.exists
       /\ store' = Stored(cfgMap)
       /\ abs' = absNext
       /\ Return(t, NoRet, Append(log[t], Entry("Update", NoErr)))
       /\ UNCHANGED faults

\* Put, after getMap returned without error
Put(t) ==
    /\ pc[t] = "use"
    /\ op[t].kind = "Put"
    /\ \/ /\ m[t].DataNil
          /\ Return(t, ErrRet(NilMapPanic), log[t])
          /\ UNCHANGED <<store, faults, abs>>
       \/ /\ ~m[t].DataNil
          /\ saveMap(t,
                [m[t] EXCEPT !.Data = SetKey(@, op[t].key, StringOfBytes(op[t].val))],
                [abs EXCEPT !.data = [k \in DOMAIN @ \cup {op[t].key} |->
                                        IF k = op[t].key THEN op[t].val ELSE @[k]]])
    /\ UNCHANGED <<ready, inst, nOps>>

\* a Get that does not look at the ok of the map read
GetNoCheck(t) ==
    /\ pc[t] = "use"
    /\ op[t].kind = "Get"
    /\ Return(t, [NoRet EXCEPT
            !.val = IF op[t].key \in DOMAIN m[t].Data
                      THEN BytesOfString(m[t].Data[op[t].key]) ELSE << >>,
            !.valNil = FALSE], log[t])
    /\ UNCHANGED <<store, ready, inst, nOps, faults, abs>>

\* a Get that writes the record it read back before it returns
GetSaving(t) ==
    /\ pc[t] = "use"
    /\ op[t].kind = "Get"
    /\ store' = IF store.exists THEN Stored(m[t]) ELSE store
    /\ Return(t,
          IF op[t].key \in DOMAIN m[t].Data
            THEN [NoRet EXCEPT !.val = BytesOfString(m[t].Data[op[t].key]), !.valNil = FALSE]
            ELSE [NoRet EXCEPT !.err = ErrNotFound, !.valNil = FALSE],
          Append(log[t], Entry("Update", IF store.exists THEN NoErr ELSE ApiNotFound)))
    /\ UNCHANGED <<ready, inst, nOps, faults, abs>>

\* Get, after getMap returned without error
Get(t) ==
    /\ pc[t] = "use"
    /\ op[t].kind = "Get"
    /\ IF op[t].key \in DOMAIN m[t].Data
         THEN Return(t, [NoRet EXCEPT !.val = BytesOfString(m[t].Data[op[t].key]),
                                      !.valNil = FALSE], log[t])
         ELSE Return(t, [NoRet EXCEPT !.err = ErrNotFound, !.val = BytesOfString(<< >>),
                                      !.valNil = FALSE], log[t])
    /\ UNCHANGED <<store, ready, inst, nOps, faults, abs>>

\* a Delete that removes the record when it takes the last entry out
DeleteRemovingRecord(t) ==
    /\ pc[t] = "use"
    /\ op[t].kind = "Delete"
    /\ IF DOMAIN m[t].Data \subseteq {op[t].key}
         THEN /\ store' = Absent
              /\ abs' = AbsAbsent
              /\ Return(t, NoRet, Append(log[t], Entry("Delete", NoErr)))
              /\ UNCHANGED faults
         ELSE saveMap(t,
                [m[t] EXCEPT !.Data = DeleteKey(@, op[t].key)],
                [abs EXCEPT !.data = [k \in DOMAIN @ \ {op[t].key} |-> @[k]]])
    /\ UNCHANGED <<ready, inst, nOps>>

\* Delete, after getMap returned without error
Delete(t) ==
    /\ pc[t] = "use"
    /\ op[t].kind = "Delete"
    /\ saveMap(t,
          [m[t] EXCEPT !.Data = DeleteKey(@, op[t].key)],
          [abs EXCEPT !.data = [k \in DOMAIN @ \ {op[t].key} |-> @[k]]])
    /\ UNCHANGED <<ready, inst, nOps>>

\* List, after getMap returned without error
List(t) ==
    /\ pc[t] = "use"
    /\ op[t].kind = "List"
    /\ Return(t, [NoRet EXCEPT
            !.list = [key \in {k \in DOMAIN m[t].Data : HasPrefix(k, op[t].key)} |->
                        BytesOfString(m[t].Data[key])],
            !.listNil = FALSE], log[t])
    /\ UNCHANGED <<store, ready, inst, nOps, faults, abs>>

\* a Teardown that waits for the lock of the handle to be free
TeardownLocked(t) ==
    LET Returned(r, res) ==
            last' = [t |-> t, op |-> TeardownOp, ret |-> r,
                     log |-> <<Entry("Delete", res)>>, seen |-> AbsAbsent, m |-> NoMap,
                     existed |-> store.exists, rec |-> AbsAbsent]
    IN
    /\ pc[t] = "idle"
    /\ mu[inst[t]] = Free
    /\ ready[inst[t]]
    /\ nOps < MaxOps
    /\ nOps' = nOps + 1
    /\ \/ /\ Fault
          /\ Returned(ErrRet(ApiUnavailable), ApiUnavailable)
          /\ UNCHANGED <<store, abs>>
       \/ /\ ~store.exists
          /\ Returned(ErrRet(ApiNotFound), ApiNotFound)
          /\ UNCHANGED <<store, faults, abs>>
       \/ /\ store.exists
          /\ store' = Absent
          /\ abs' = AbsAbsent
          /\ Returned(NoRet, NoErr)
          /\ UNCHANGED faults
    /\ UNCHANGED <<ready, mu, inst, pc, op, m, log, seenAbs, seenRec, existed>>

\* Teardown: k.implementer.Delete(k.bucket, ...), no lock taken
Teardown(t) ==
    LET Returned(r, res) ==
            last' = [t |-> t, op |-> TeardownOp, ret |-> r,
                     log |-> <<Entry("Delete", res)>>, seen |-> AbsAbsent, m |-> NoMap,
                     existed |-> store.exists, rec |-> AbsAbsent]
    IN
    /\ pc[t] = "idle"
    /\ ready[inst[t]]
    /\ nOps < MaxOps
    /\ nOps' = nOps + 1
    /\ \/ /\ Fault
          /\ Returned(ErrRet(ApiUnavailable), ApiUnavailable)
          /\ UNCHANGED <<store, abs>>
       \/ /\ ~store.exists
          /\ Returned(ErrRet(ApiNotFound), ApiNotFound)
          /\ UNCHANGED <<store, faults, abs>>
       \/ /\ store.exists
          /\ store' = Absent
          /\ abs' = AbsAbsent
          /\ Returned(NoRet, NoErr)
          /\ UNCHANGED faults
    /\ UNCHANGED <<ready, mu, inst, pc, op, m, log, seenAbs, seenRec, existed>>

Next ==
    \E t \in Threads :
        \/ CallNew(t)
        \/ \E o \in LockedOps : Call(t, o)
        \/ Lock(t)
        \/ RLock(t)
        \/ getMap(t)
        \/ newConfigMapsObject(t)
        \/ New(t)
        \/ Put(t)
        \/ Get(t)
        \/ Delete(t)
        \/ List(t)
        \/ Teardown(t)

Spec == Init /\ [][Next]_vars

\* a call in progress takes its next step: the lock when it is to be had, a
\* backend call (which returns), the return
Step(t) ==
    \/ Lock(t)
    \/ RLock(t)
    \/ getMap(t)
    \/ newConfigMapsObject(t)
    \/ New(t)
    \/ Put(t)
    \/ Get(t)
    \/ Delete(t)
    \/ List(t)

\* the calls made in the progress runs: the lock and the backend calls of a
\* call depend on its kind, so one key and one value stand for all
FairOps ==
    {[kind |-> "Put", key |-> KeyA, val |-> <<255>>]}
    \cup {[kind |-> kd, key |-> KeyA, val |-> << >>] : kd \in {"Get", "Delete"}}
    \cup {[kind |-> "List", key |-> << >>, val |-> << >>]}

NextFair ==
    \E t \in Threads :
        \/ CallNew(t)
        \/ \E o \in FairOps : Call(t, o)
        \/ Step(t)
        \/ Teardown(t)

\* goroutines that can run do run, and every backend call returns
FairSpec == Init /\ [][NextFair]_vars /\ \A t \in Threads : WF_vars(Step(t))

\* two handles on the same bucket name, one goroutine on each
InitMulti == InitWith([t \in Threads |-> IF t = "t1" THEN "kv1" ELSE "kv2"])

\* the calls made in the two-handle runs: each handle puts a value of its own
\* (kv1 the empty value, kv2 the byte 255), so that a value tells who wrote it
ValueOf(i) == IF i = "kv1" THEN << >> ELSE <<255>>

MultiOps(t) ==
    {[kind |-> "Put", key |-> k, val |-> ValueOf(inst[t])] : k \in Keys}
    \cup {[kind |-> kd, key |-> k, val |-> << >>] : kd \in {"Get", "Delete"}, k \in Keys}
    \cup {[kind |-> "List", key |-> p, val |-> << >>] : p \in {<< >>, <<98>>}}

NextMulti ==
    \E t \in Threads :
        \/ CallNew(t)
        \/ \E o \in MultiOps(t) : Call(t, o)
        \/ Lock(t)
        \/ RLock(t)
        \/ getMap(t)
        \/ newConfigMapsObject(t)
        \/ New(t)
        \/ Put(t)
        \/ Get(t)
        \/ Delete(t)
        \/ List(t)
        \/ Teardown(t)

SpecMulti == InitMulti /\ [][NextMulti]_vars

----------------------------------------------------------------------------
(* Properties *)

\* the call that has just returned got its record from getMap without a
\* backend failure
GetMapOk(e) ==
    /\ Len(e.log) >= 1
    /\ e.log[1].res \in {NoErr, ApiNotFound}
    /\ Len(e.log) >= 2 => e.log[2].res = NoErr
    /\ e.log[1].res = ApiNotFound => Len(e.log) >= 2

\* C1 (round trip): a Get(k) that resolves the record when the bucket, taken
\* as the sequence of the writes that succeeded so far, holds v under k (the
\* last successful Put(k, v), nothing having touched k since) returns exactly
\* the bytes v and no error; the empty value comes back as an empty value.
C1_RoundTrip ==
    (/\ last.op.kind = "Get"
     /\ GetMapOk(last)
     /\ last.op.key \in DOMAIN last.seen.data)
    => /\ last.ret.err = NoErr
       /\ ~last.ret.valNil
       /\ last.ret.val = last.seen.data[last.op.key]

\* a Get of a key that only a Put can have written returns the empty value
C1_Witness ==
    /\ last.op.kind = "Get"
    /\ last.op.key = KeyBA
    /\ last.ret.err = NoErr
    /\ last.ret.val = << >>
    /\ KeyA \in DOMAIN store.data
    /\ store.data[KeyA] = <<255>>

\* C2 (local writers serialize): the record in the backend is always what the
\* successful Put, Delete, Teardown and create calls so far give when applied
\* one after the other in the order of their backend writes; so two Puts of
\* different keys issued concurrently on one handle both end up in the record.
C2_WritersSerialize ==
    /\ store.exists = abs.exists
    /\ store.labels = abs.labels
    /\ DOMAIN store.data = DOMAIN abs.data
    /\ \A k \in DOMAIN store.data : store.data[k] = abs.data[k]
    /\ \A t \in Threads :
        (last.t = t /\ last.op.kind = "Put" /\ last.ret.err = NoErr)
        => /\ last.op.key \in DOMAIN store.data
           /\ \A k \in DOMAIN last.seen.data : k \in DOMAIN store.data

\* two Puts that overlapped: there was no record when Put("a") was issued,
\* "ba" was in it when that Put fetched it (the other goroutine's Put ran in
\* between), and the record now holds both keys
C2_Witness ==
    /\ last.op.kind = "Put"
    /\ last.ret.err = NoErr
    /\ last.op.key = KeyA
    /\ ~last.existed
    /\ KeyBA \in DOMAIN last.seen.data
    /\ DOMAIN store.data = {KeyA, KeyBA}

\* C3 (not found): a Get(k) that resolves the record when the bucket holds
\* nothing under k (never written, or deleted since) returns ErrNotFound, no
\* other error, and a value without bytes.
C3_NotFound ==
    (/\ last.op.kind = "Get"
     /\ GetMapOk(last)
     /\ last.op.key \notin DOMAIN last.seen.data)
    => /\ last.ret.err = ErrNotFound
       /\ last.ret.val = << >>

\* Get(KeyA) says not found on the record that was there, holding KeyA, before
\* the handle was made: KeyA was deleted
C3_Witness ==
    /\ last.op.kind = "Get"
    /\ last.op.key = KeyA
    /\ last.ret.err = ErrNotFound
    /\ store.exists
    /\ store.labels = labels("kv2")

\* the backend calls of a kind that the call that has just returned made
CallsOf(e, call) == {i \in DOMAIN e.log : e.log[i].call = call}

\* no backend call of the call that has just returned failed, but for a
\* first fetch that found no record
NoBackendFailure(e) ==
    \A i \in DOMAIN e.log :
        \/ e.log[i].res = NoErr
        \/ i = 1 /\ e.log[i] = Entry("Get", ApiNotFound)

\* C4 (teardown then reuse), as claimed: a Put or Get issued when a Teardown
\* has removed the record, no backend call of it failing, creates the record
\* anew, empty and with the handle's labels, and then does what it does on a
\* fresh handle: Put stores its entry without error, Get says ErrNotFound.
C4_TeardownThenReuse ==
    (/\ last.op.kind \in {"Put", "Get"}
     /\ ~last.existed
     /\ Len(last.log) >= 2
     /\ last.log[1] = Entry("Get", ApiNotFound)
     /\ NoBackendFailure(last))
    => /\ last.m.Labels = labels(inst[last.t])
       /\ last.m.Data = EmptyData
       /\ last.op.kind = "Get" => last.ret.err = ErrNotFound
       /\ last.op.kind = "Put" =>
            /\ last.ret.err = NoErr
            /\ store.exists
            /\ DOMAIN store.data = {last.op.key}

\* C5 (creation on first use): a New that finds no record and whose create
\* does not fail returns the handle, has issued exactly one create and leaves
\* the record named after the bucket, with the labels BUCKET, APP and OWNER
\* = "K8S-KV" and no data; a New that finds a record issues no create,
\* returns the handle and leaves the record as it was.
C5_CreationOnFirstUse ==
    (last.op.kind = "New" /\ NoBackendFailure(last))
    => /\ last.ret.err = NoErr
       /\ ready[inst[last.t]]
       /\ store.exists
       /\ store.name = Bucket
       /\ last.log[1].res = ApiNotFound =>
            /\ Cardinality(CallsOf(last, "Create")) = 1
            /\ store.labels = [BUCKET |-> Bucket, APP |-> AppOf(inst[last.t]), OWNER |-> "K8S-KV"]
            /\ store.data = EmptyData
       /\ last.log[1].res = NoErr =>
            /\ CallsOf(last, "Create") = {}
            /\ CallsOf(last, "Update") = {}
            /\ store.labels = last.seen.labels
            /\ DOMAIN store.data = DOMAIN last.seen.data
            /\ \A k \in DOMAIN store.data : store.data[k] = last.seen.data[k]

\* New has just made the record
C5_Witness ==
    /\ last.op.kind = "New"
    /\ last.ret.err = NoErr
    /\ last.log = <<Entry("Get", ApiNotFound), Entry("Create", NoErr)>>
    /\ store.exists

\* key starts with p: p is what key begins with
StartsWith(key, p) == \E n \in 0..Len(key) : p = [j \in 1..n |-> key[j]]

\* C6 (prefix filter): a List(p) that resolves the record returns no error and
\* exactly the entries of the bucket whose key starts with p, each with its
\* value; so all of them for the empty prefix, and an empty, non-nil mapping
\* for a bucket without entries.
C6_PrefixFilter ==
    (last.op.kind = "List" /\ GetMapOk(last))
    => /\ last.ret.err = NoErr
       /\ ~last.ret.listNil
       /\ DOMAIN last.ret.list = {k \in DOMAIN last.seen.data : StartsWith(k, last.op.key)}
       /\ \A k \in DOMAIN last.ret.list : last.ret.list[k] = last.seen.data[k]
       /\ last.op.key = << >> => DOMAIN last.ret.list = DOMAIN last.seen.data
       /\ DOMAIN last.seen.data = {} => last.ret.list = EmptyData

\* List("b") on a record holding "a" and "ba" returns "ba" alone
C6_Witness ==
    /\ last.op.kind = "List"
    /\ last.op.key = <<98>>
    /\ last.ret.err = NoErr
    /\ DOMAIN last.seen.data = {KeyA, KeyBA}
    /\ DOMAIN last.ret.list = {KeyBA}

\* C7 (idempotent delete): a Delete(k) returns no error but a backend
\* failure; when it succeeds the record holds nothing under k, and when the
\* record held nothing under k it is left with the labels and the data it
\* had, so that a second Delete(k) changes nothing.
C7_IdempotentDelete ==
    last.op.kind = "Delete"
    => /\ last.ret.err # NoErr =>
            /\ Len(last.log) >= 1
            /\ last.log[Len(last.log)].res = last.ret.err
            /\ last.ret.err \in {ApiUnavailable, ApiAlreadyExists, ApiNotFound}
       /\ last.ret.err = NoErr =>
            /\ store.exists
            /\ last.op.key \notin DOMAIN store.data
            /\ last.op.key \notin DOMAIN last.seen.data =>
                /\ store.labels = last.seen.labels
                /\ DOMAIN store.data = DOMAIN last.seen.data
                /\ \A k \in DOMAIN store.data : store.data[k] = last.seen.data[k]

\* a Delete of a key the record did not hold has succeeded and the record
\* still holds its other entry
C7_Witness ==
    /\ last.op.kind = "Delete"
    /\ last.ret.err = NoErr
    /\ last.op.key = KeyBA
    /\ DOMAIN last.seen.data = {KeyA}
    /\ DOMAIN store.data = {KeyA}

\* C8 (frame): the record a successful Put(k, v) wrote has v under k and, for
\* the rest, the name, the labels and the entries of the record that was
\* fetched; the record a successful Delete(k) wrote lacks k and is otherwise
\* the record that was fetched.
C8_OnlyThatKey ==
    (last.op.kind \in {"Put", "Delete"} /\ last.ret.err = NoErr)
    => /\ store.exists
       /\ store.name = last.m.Name
       /\ store.labels = last.m.Labels
       /\ DOMAIN store.data \ {last.op.key} = DOMAIN last.m.Data \ {last.op.key}
       /\ \A k \in DOMAIN store.data \ {last.op.key} : store.data[k] = last.m.Data[k]
       /\ last.op.kind = "Put" =>
            /\ last.op.key \in DOMAIN store.data
            /\ store.data[last.op.key] = last.op.val
       /\ last.op.kind = "Delete" => last.op.key \notin DOMAIN store.data

\* a Put has overwritten the value of a key in a record holding another key
C8_Witness ==
    /\ last.op.kind = "Put"
    /\ last.ret.err = NoErr
    /\ last.op.key = KeyA
    /\ DOMAIN last.m.Data = {KeyA, KeyBA}
    /\ last.m.Data[KeyA] # last.op.val
    /\ store.data[KeyA] = last.op.val

\* C9 (resolve-or-create errors): a fetch that fails with anything but "not
\* found" ends the call (New, Put, Get, Delete, List) with that error, no
\* create issued and, for New, no handle; after a "not found" fetch a create
\* follows, a failure of that create is what the call returns, and the
\* fetch's "not found" is never what the call returns.
C9_ResolveErrors ==
    last.op.kind \in {"New", "Put", "Get", "Delete", "List"}
    => /\ Len(last.log) >= 1
       /\ last.log[1].call = "Get"
       /\ last.log[1].res \notin {NoErr, ApiNotFound} =>
            /\ last.ret.err = last.log[1].res
            /\ Len(last.log) = 1
            /\ last.op.kind = "New" => ~ready[inst[last.t]]
       /\ last.log[1].res = ApiNotFound =>
            /\ Len(last.log) >= 2
            /\ last.log[2].call = "Create"
            /\ last.log[2].res # NoErr =>
                /\ last.ret.err = last.log[2].res
                /\ Len(last.log) = 2
            /\ last.ret.err = ApiNotFound =>
                last.log[Len(last.log)] = Entry("Update", ApiNotFound)
       /\ last.log[1].res = NoErr => CallsOf(last, "Create") = {}

\* New has failed on its fetch
C9_Witness ==
    /\ last.op.kind = "New"
    /\ last.ret.err = ApiUnavailable
    /\ last.log = <<Entry("Get", ApiUnavailable)>>
    /\ ~ready[inst[last.t]]

\* C10 (reads do not mutate): no step of a Get or a List changes a record
\* that exists (the one change such a call can make is getMap's create of an
\* empty record where there was none), and a Get or List issues no backend
\* update or delete.
C10_ReadsDoNotMutate ==
    [][/\ \A t \in Threads :
            (op[t].kind \in {"Get", "List"} /\ pc'[t] # pc[t])
            => \/ store' = store
               \/ ~store.exists /\ store'.exists /\ store'.data = EmptyData
       /\ last'.op.kind \in {"Get", "List"} =>
            \A i \in DOMAIN last'.log : last'.log[i].call \in {"Get", "Create"}]_vars

\* a Get has returned a value and the record holds its entries
C10_Witness ==
    /\ last.op.kind = "Get"
    /\ last.ret.err = NoErr
    /\ last.ret.val = <<255>>
    /\ store.exists
    /\ DOMAIN store.data = {KeyA, KeyBA}

----------------------------------------------------------------------------
(* Two handles on one bucket name; critical sections; lifecycle; errors *)

\* C11 (no cross-instance coordination): with two handles on the same bucket
\* name, a Put that succeeds replaces the whole record by the record it
\* fetched with its own entry set; whatever the other handle stored after that
\* fetch is gone (the later full-replace update wins).
C11_LastWriteWins ==
    (last.op.kind = "Put" /\ last.ret.err = NoErr)
    => /\ store.exists
       /\ AbsOf(store).data =
            [k \in DOMAIN last.rec.data \cup {last.op.key} |->
                IF k = last.op.key THEN last.op.val ELSE last.rec.data[k]]

\* kv1 has put the first key and kv2 the second, both without error (the
\* sequential view holds both entries), and the record holds only the second
C11_Witness ==
    /\ last.op.kind = "Put"
    /\ last.ret.err = NoErr
    /\ inst[last.t] = "kv2"
    /\ last.op.key = KeyBA
    /\ DOMAIN abs.data = {KeyA, KeyBA}
    /\ abs.data[KeyA] = ValueOf("kv1")
    /\ DOMAIN store.data = {KeyBA}

\* the call of u (a Put, Get, Delete or List: Teardown is one step from idle)
\* issues a backend call in this step
Issues(u) ==
    \/ Len(log'[u]) > Len(log[u])
    \/ pc[u] # "idle" /\ pc'[u] = "idle" /\ last'.t = u /\ Len(last'.log) > Len(log[u])

\* the backend calls a Put, Get, Delete or List has made when it stands at pc
CallsAt(t) ==
    CASE pc[t] \in {"idle", "lock", "getMap"} -> {<< >>}
      [] pc[t] = "create" -> {<<Entry("Get", ApiNotFound)>>}
      [] pc[t] = "use" -> {<<Entry("Get", NoErr)>>,
                           <<Entry("Get", ApiNotFound), Entry("Create", NoErr)>>}

\* C12 (write critical section): while a Put or Delete has taken the lock and
\* not returned (about to fetch, fetched, created, about to update), no other
\* Put, Delete, Get or List on the same handle issues a backend call; and
\* every Put, Get, Delete and List goes lock, fetch (then create only after
\* NotFound), use, unlock: it holds the lock, in its mode, exactly from its
\* fetch to its return, and its backend calls so far are those of its stage.
C12_WriteCriticalSection ==
    [][\A t \in Threads :
          /\ op[t].kind \in {"Put", "Delete"} /\ pc[t] \in {"getMap", "create", "use"}
                => \A u \in Threads \ {t} : inst[u] = inst[t] => ~Issues(u)
          /\ op[t].kind \in {"Put", "Delete"}
                => (pc[t] \in {"getMap", "create", "use"} <=> mu[inst[t]].writer = {t})
          /\ op[t].kind \in {"Get", "List"}
                => (pc[t] \in {"getMap", "create", "use"} <=> t \in mu[inst[t]].readers)
          /\ op[t].kind \in {"Put", "Get", "Delete", "List"} => log[t] \in CallsAt(t)
          /\ pc[t] = "idle" => t \notin mu[inst[t]].writer \cup mu[inst[t]].readers
      ]_vars

\* a Put has fetched and not yet updated; a Get on the same handle waits for
\* the lock
C12_Witness ==
    \E t, u \in Threads :
        /\ t # u /\ inst[t] = inst[u]
        /\ op[t].kind = "Put" /\ pc[t] = "use" /\ log[t] = <<Entry("Get", NoErr)>>
        /\ op[u].kind = "Get" /\ pc[u] = "lock"

\* u makes Teardown's backend delete in this step
Tears(u) == nOps' # nOps /\ last'.t = u /\ last'.op.kind = "Teardown"

\* t holds the lock of its handle, in either mode
Holds(t) == t \in mu[inst[t]].writer \cup mu[inst[t]].readers

\* C13 as claimed: while a call on a handle holds the handle's lock, shared
\* or exclusive, no other call on that handle starts a backend round-trip.
C13_NoSecondRoundTrip ==
    [][\A t \in Threads : Holds(t) =>
          \A u \in Threads \ {t} : inst[u] = inst[t] => ~(Issues(u) \/ Tears(u))
      ]_vars

\* C13 (amended): while a call holds the lock in exclusive mode the only
\* backend round-trip another call on that handle starts is Teardown's
\* delete; while a call holds it in shared mode the only ones are those of
\* other shared holders (Get, List) and Teardown's delete.
C13_RoundTripsUnderLock ==
    [][\A t \in Threads : \A u \in Threads \ {t} :
          (inst[u] = inst[t] /\ Holds(t) /\ Issues(u))
          => /\ t \in mu[inst[t]].readers
             /\ u \in mu[inst[u]].readers
             /\ op[t].kind \in {"Get", "List"}
             /\ op[u].kind \in {"Get", "List"}
      ]_vars

\* two Gets on one handle hold the lock in shared mode, both after a fetch
C13_Witness ==
    \E t, u \in Threads :
        /\ t # u /\ inst[t] = inst[u]
        /\ mu[inst[t]].readers = {t, u}
        /\ op[t].kind = "Get" /\ op[u].kind = "Get"
        /\ pc[t] = "use" /\ pc[u] = "use"

\* C14 (concurrent readers on an absent record), as claimed: a Get or List
\* issued when there is no record, on a backend that has failed no call but
\* a create of an existing name, returns without error or with ErrNotFound,
\* and never a backend error, also when other Gets and Lists run on the same
\* handle at the same time.
C14_ReadersOnAbsentRecord ==
    (/\ last.op.kind \in {"Get", "List"}
     /\ ~last.existed
     /\ faults = 0)
    => last.ret.err \in {NoErr, ErrNotFound}

\* t makes a backend update in this step (saveMap returns with it)
Updates(t) ==
    /\ pc[t] = "use" /\ pc'[t] = "idle" /\ last'.t = t
    /\ Len(last'.log) > Len(log[t])
    /\ last'.log[Len(last'.log)].call = "Update"

\* C15 (record lifecycle): the record of the bucket name is absent or there.
\* It comes into being only by a create that getMap issues after a fetch
\* said NotFound, and then with the name, the labels of the creating handle
\* and no entries; it goes away only by a Teardown whose delete succeeds;
\* no step of a Put, Get, Delete or List removes it, and an update on an
\* absent record fails and leaves it absent.
C15_Lifecycle ==
    [][/\ (~store.exists /\ store'.exists) =>
            \E t \in Threads :
                /\ pc[t] = "create" /\ pc'[t] = "use"
                /\ log[t] = <<Entry("Get", ApiNotFound)>>
                /\ log'[t] = Append(log[t], Entry("Create", NoErr))
                /\ store' = [exists |-> TRUE, name |-> Bucket,
                             labels |-> labels(inst[t]), data |-> EmptyData]
       /\ (store.exists /\ ~store'.exists) =>
            \E t \in Threads :
                /\ Tears(t)
                /\ last'.ret.err = NoErr
                /\ last'.log = <<Entry("Delete", NoErr)>>
       /\ \A t \in Threads : Issues(t) => (store.exists => store'.exists)
       /\ \A t \in Threads : (Updates(t) /\ ~store.exists) =>
                /\ ~store'.exists
                /\ last'.ret.err \in {ApiNotFound, ApiUnavailable}
      ]_vars

\* the record, removed by a Teardown, has been created again by a Put, Get,
\* Delete or List
C15_Witness ==
    \E t \in Threads :
        /\ op[t].kind \in {"Put", "Get", "Delete", "List"}
        /\ pc[t] = "use"
        /\ log[t] = <<Entry("Get", ApiNotFound), Entry("Create", NoErr)>>
        /\ store.exists
        /\ store.labels = labels(inst[t])

\* C16 (no retries, no partial recovery): a Put or Delete that returns has
\* made one fetch, first; at most one create, second and only after the
\* fetch said NotFound; at most one update, last; and one update, without
\* error, when it returns nil. When the fetch or the create failed it
\* returns that very error, has made no update, and no step of it changed
\* the record; when the update failed it returns that very error.
C16_NoRetries ==
    [][\A t \in Threads : op[t].kind \in {"Put", "Delete"} =>
          /\ (pc[t] \in {"getMap", "create"} /\ pc'[t] = "idle") =>
                /\ store' = store
                /\ last'.ret.err # NoErr
                /\ last'.ret.err = last'.log[Len(last'.log)].res
                /\ CallsOf(last', "Update") = {}
          /\ (pc[t] = "getMap" /\ pc'[t] # "getMap") => store' = store
          /\ (pc[t] # "idle" /\ pc'[t] = "idle") =>
                LET lg == last'.log
                    n == Len(lg)
                IN /\ n >= 1
                   /\ CallsOf(last', "Get") = {1}
                   /\ CallsOf(last', "Create") \subseteq {2}
                   /\ CallsOf(last', "Create") # {} => lg[1].res = ApiNotFound
                   /\ CallsOf(last', "Update") \subseteq {n}
                   /\ \A i \in 1..n : lg[i].call \in {"Get", "Create", "Update"}
                   /\ \A i \in 1..(n - 1) : lg[i].res = NoErr \/ (i = 1 /\ lg[i].res = ApiNotFound)
                   /\ last'.ret.err = NoErr => lg[n] = Entry("Update", NoErr)
                   /\ (lg[n].call = "Update" /\ lg[n].res # NoErr) => last'.ret.err = lg[n].res
      ]_vars

\* a Put has returned the error of its update, having fetched once
C16_Witness ==
    /\ last.op.kind = "Put"
    /\ last.log = <<Entry("Get", NoErr), Entry("Update", ApiUnavailable)>>
    /\ last.ret.err = ApiUnavailable

\* C17 (initialised data mapping), as claimed, for Put: the record getMap
\* has handed to a Put, fetched or just created, has a data mapping that is
\* not nil, and the Put does not end in a write into a nil map.
C17_DataInitialized ==
    (last.op.kind = "Put" /\ last.m.Name = Bucket)
    => /\ ~last.m.DataNil
       /\ last.ret.err # NilMapPanic

\* C18 (Teardown): a Teardown makes one backend call, the delete of the
\* record, and returns its result; it takes and releases no lock; a delete
\* that succeeds leaves no record and one that fails leaves the record as it
\* was; and a goroutine can run Teardown whatever the other calls on the
\* handle are doing, a Put that has fetched and not yet updated included.
C18_TeardownUnlocked ==
    /\ [](\A t \in Threads :
            (pc[t] = "idle" /\ ready[inst[t]] /\ nOps < MaxOps) => ENABLED Teardown(t))
    /\ [][\A t \in Threads : Tears(t) =>
            /\ Len(last'.log) = 1
            /\ last'.log[1].call = "Delete"
            /\ last'.ret.err = last'.log[1].res
            /\ mu' = mu
            /\ pc' = pc
            /\ last'.ret.err = NoErr => (store.exists /\ ~store'.exists)
            /\ last'.ret.err # NoErr => store' = store
       ]_vars

\* a Teardown has removed the record while a Put on the same handle, holding
\* the lock, has fetched and not yet updated
C18_Witness ==
    /\ last.op.kind = "Teardown"
    /\ last.ret.err = NoErr
    /\ ~store.exists
    /\ \E u \in Threads \ {last.t} :
          /\ inst[u] = inst[last.t]
          /\ op[u].kind = "Put" /\ pc[u] = "use"
          /\ mu[inst[u]].writer = {u}

\* C19 (no caching): a Get or List that returns without a backend error has
\* fetched (or, finding none, created) the record in that same call, first
\* thing, and answers from that record as the backend held it then: Get the
\* bytes under the key or ErrNotFound, List the entries under the prefix;
\* so what another handle wrote before the fetch is what it returns.
C19_NoCaching ==
    (/\ last.op.kind \in {"Get", "List"}
     /\ last.ret.err \in {NoErr, ErrNotFound})
    => /\ Len(last.log) >= 1
       /\ last.log[1].call = "Get"
       /\ last.log[1].res \in {NoErr, ApiNotFound}
       /\ last.rec.exists
       /\ last.op.kind = "Get" =>
            IF last.op.key \in DOMAIN last.rec.data
              THEN last.ret.err = NoErr /\ last.ret.val = last.rec.data[last.op.key]
              ELSE last.ret.err = ErrNotFound
       /\ last.op.kind = "List" =>
            /\ last.ret.err = NoErr
            /\ last.ret.list =
                 [k \in {x \in DOMAIN last.rec.data : StartsWith(x, last.op.key)} |->
                    last.rec.data[k]]

\* a Get on kv1 returns, under a key kv1 may have written itself, the value
\* that only kv2 writes
C19_Witness ==
    /\ last.op.kind = "Get"
    /\ inst[last.t] = "kv1"
    /\ last.op.key = KeyBA
    /\ last.ret.err = NoErr
    /\ last.ret.val = ValueOf("kv2")

\* C20 (lock release and progress): a goroutine that is in no call holds no
\* lock; the step at which a Put, Get, Delete or List returns, with or
\* without an error, leaves its goroutine holding no lock; and, every
\* backend call returning, every call that has started returns.
C20_ReleaseAndProgress ==
    /\ [](\A t \in Threads : pc[t] = "idle" => ~Holds(t))
    /\ [][\A t \in Threads : (pc[t] # "idle" /\ pc'[t] = "idle") =>
              t \notin mu'[inst[t]].writer \cup mu'[inst[t]].readers]_vars
    /\ \A t \in Threads : (pc[t] # "idle") ~> (pc[t] = "idle")

\* a Put has returned a backend error and the lock is free, another call on
\* the handle waiting for it
C20_Witness ==
    /\ last.op.kind = "Put"
    /\ last.ret.err = ApiUnavailable
    /\ mu[inst[last.t]] = Free
    /\ \E u \in Threads \ {last.t} : inst[u] = inst[last.t] /\ pc[u] = "lock"
====
